---- MODULE Spec2Model ----
(***************************************************************************)
(* A model of scripts/generate_heatmap.py: the two provider fetchers, the  *)
(* aggregation by date, the streak calculation and the heatmap grid walk.  *)
(*                                                                         *)
(* Strings are tuples of one-character strings, so that slicing ([:10])    *)
(* and lower() are computed.  A calendar date is its proleptic Gregorian   *)
(* ordinal (datetime.date.toordinal()), and strftime("%Y-%m-%d") is        *)
(* computed from it.                                                       *)
(***************************************************************************)
EXTENDS Integers, Sequences, FiniteSets, TLC

VARIABLES
    pc,               \* position of the program
    today,            \* datetime.now().date(), as an ordinal
    commit_counts,    \* the DailyCounts mapping: date string -> count
    current_streak,   \* calculate_streak: the current streak
    check_date,       \* calculate_streak: the day the current-streak walk is at
    i,                \* calculate_streak: the index of the max-streak scan
    temp_streak,      \* calculate_streak: the running length of the scan
    max_streak,       \* calculate_streak: the longest run seen
    start_date,       \* generate_svg: the date of the grid's first cell
    max_count,        \* generate_svg: max(commit_counts.values()), or 0
    week,             \* generate_svg: the column the walk is at
    day,              \* generate_svg: the row the walk is at
    current_date,     \* generate_svg: the date of the cell the walk is at
    drawn,            \* generate_svg: the day cells appended to svg_parts
    AUTHOR_EMAILS,    \* the allow-list, as line 25 builds it
    azure_configured, \* AZURE_DEVOPS_PAT and AZURE_ORG are both set
    github_configured,\* GITHUB_TOKEN is set
    azure_commits,    \* fetch_azure_commits: all_commits, then main's copy
    github_commits,   \* fetch_github_commits: all_commits, then main's copy
    n_projects,       \* fetch_azure_commits: len(projects)
    p_idx,            \* fetch_azure_commits: the project the walk is at
    n_repos,          \* the fetchers: len(repos)
    r_idx,            \* the fetchers: the repository the walk is at
    commits,          \* get_*_commits: the records of the pages read so far
    skip,             \* get_azure_commits: $skip
    page,             \* get_github_repos, get_github_commits: page
    error_log,        \* per provider, what its "except" branch printed
    last_response,    \* the request answered last, and its answer
    received,         \* per provider, the records get_*_commits returned
    served,           \* the records the providers have sent so far
    all_commits,      \* main: azure_commits + github_commits
    svg_total,        \* main: total_commits as passed to generate_svg
    stats,            \* main: the arguments of update_stats_file
    loop,             \* the pagination loop that runs (pagination spec)
    n_items           \* the length of the list that loop has gathered

inputVars == <<today, commit_counts>>
streakVars == <<current_streak, check_date, i, temp_streak, max_streak>>
gridVars == <<start_date, max_count, week, day, current_date, drawn>>
configVars == <<AUTHOR_EMAILS, azure_configured, github_configured>>
walkVars == <<n_projects, p_idx, n_repos, r_idx, commits>>
cursorVars == <<skip, page>>
resultVars == <<azure_commits, github_commits, error_log, received>>
mainVars == <<all_commits, svg_total, stats>>
fetchVars == <<configVars, walkVars, resultVars, mainVars, last_response,
               served>>
pageVars == <<loop, n_items>>
otherThanStreak == <<gridVars, fetchVars, cursorVars, pageVars>>
otherThanGrid == <<streakVars, fetchVars, cursorVars, pageVars>>
otherThanFetch == <<today, streakVars, gridVars, pageVars>>

vars == <<pc, inputVars, streakVars, gridVars, fetchVars, cursorVars, pageVars>>

----------------------------------------------------------------------------
(* Bounds of the model.                                                    *)

\* "today" ranges over TodayBase .. TodayBase + MaxTodayShift.
MaxTodayShift == 6
\* Streak inputs: runs of active days whose ends lie 0..NearEdge days before
\* today, or within FarEdge days of the far end of the scanned window.
NearEdge == 3
FarEdge == 1
\* Grid inputs: a day's commit count is at most MaxDayCount.
MaxDayCount == 4
\* Fetch: the page-size limit of a listing ($top = 10000 for Azure DevOps
\* commits, per_page = 100 for GitHub), scaled down; a page is full when it
\* holds PageSize items.
PageSize == 2
\* Fetch: an organisation lists at most MaxProjects projects, a project or a
\* GitHub user at most MaxRepos repositories, and the two providers send at
\* most MaxServed commit records in one run.
MaxProjects == 2
MaxRepos == 2
MaxServed == 3
\* Pagination: $skip, page and the length of the gathered list are followed
\* exactly up to MaxTracked, and as "MaxTracked or more" beyond it.
MaxTracked == 20

----------------------------------------------------------------------------
(* Calendar: what datetime.date does with an ordinal.                      *)

\* 2024-02-27 as an ordinal: the days after it cross a leap day.
TodayBase == 738943

Todays == TodayBase .. (TodayBase + MaxTodayShift)

DaysBeforeMonth == <<0, 31, 59, 90, 120, 151, 181, 212, 243, 273, 304, 334>>
DaysInMonth == <<31, 28, 31, 30, 31, 30, 31, 31, 30, 31, 30, 31>>

\* date.fromordinal(n): <<year, month, day>>.
Ord2Ymd(ordinal) ==
    LET n0 == ordinal - 1
        n400 == n0 \div 146097
        r400 == n0 % 146097
        n100 == r400 \div 36524
        r100 == r400 % 36524
        n4 == r100 \div 1461
        r4 == r100 % 1461
        n1 == r4 \div 365
        n == r4 % 365
        year == n400 * 400 + 1 + n100 * 100 + n4 * 4 + n1
    IN  IF n1 = 4 \/ n100 = 4
        THEN <<year - 1, 12, 31>>
        ELSE LET leap == n1 = 3 /\ (n4 # 24 \/ n100 = 3)
                 m0 == (n + 50) \div 32
                 p0 == DaysBeforeMonth[m0] + (IF m0 > 2 /\ leap THEN 1 ELSE 0)
                 month == IF p0 > n THEN m0 - 1 ELSE m0
                 preceding == IF p0 > n
                              THEN p0 - (DaysInMonth[month]
                                         + (IF month = 2 /\ leap THEN 1 ELSE 0))
                              ELSE p0
             IN  <<year, month, n - preceding + 1>>

\* date.weekday(): Monday is 0, Sunday is 6.
Weekday(ordinal) == (ordinal + 6) % 7

Digit(n) == <<"0", "1", "2", "3", "4", "5", "6", "7", "8", "9">>[n + 1]

\* check_date.strftime("%Y-%m-%d"): ten characters.
DateStr(ordinal) ==
    LET ymd == Ord2Ymd(ordinal)
        y == ymd[1]
        m == ymd[2]
        d == ymd[3]
    IN  << Digit((y \div 1000) % 10), Digit((y \div 100) % 10),
           Digit((y \div 10) % 10), Digit(y % 10), "-",
           Digit(m \div 10), Digit(m % 10), "-",
           Digit(d \div 10), Digit(d % 10) >>

\* commit_counts.get(date_str, 0)
Get(counts, date_str) ==
    IF date_str \in DOMAIN counts THEN counts[date_str] ELSE 0

Max(a, b) == IF a >= b THEN a ELSE b

----------------------------------------------------------------------------
(* calculate_streak                                                        *)

\* start_date = today - timedelta(days=365)
StreakWindowDays == 365
\* for i in range(366)
StreakScanDays == 366

\* calculate_streak, line 259 on: today = datetime.now().date(), then the
\* current-streak loop starts at check_date = today.
StreakBegin ==
    /\ pc = "calculate_streak"
    /\ current_streak' = 0
    /\ check_date' = today
    /\ pc' = "current_walk"
    /\ UNCHANGED <<otherThanStreak, today, commit_counts, i, temp_streak, max_streak>>

\* The loop's "if" branch: the day has commits, count it and go one day back.
CurrentCount ==
    /\ pc = "current_walk"
    /\ Get(commit_counts, DateStr(check_date)) > 0
    /\ current_streak' = current_streak + 1
    /\ check_date' = check_date - 1
    /\ UNCHANGED <<otherThanStreak, pc, today, commit_counts, i, temp_streak, max_streak>>

\* The skip that also counts the day it steps over.
CurrentSkipTodayCounted ==
    /\ pc = "current_walk"
    /\ ~(Get(commit_counts, DateStr(check_date)) > 0)
    /\ check_date = today
    /\ current_streak' = current_streak + 1
    /\ check_date' = check_date - 1
    /\ UNCHANGED <<otherThanStreak, pc, today, commit_counts, i, temp_streak, max_streak>>

\* The "else" branch on today itself: today has no commits yet, look at
\* yesterday ("continue").
CurrentSkipToday ==
    /\ pc = "current_walk"
    /\ ~(Get(commit_counts, DateStr(check_date)) > 0)
    /\ check_date = today
    /\ check_date' = check_date - 1
    /\ UNCHANGED <<otherThanStreak, pc, today, commit_counts, current_streak, i, temp_streak,
                   max_streak>>

\* The "else" branch on any other day: "break"; the max-streak scan is set up.
CurrentBreak ==
    /\ pc = "current_walk"
    /\ ~(Get(commit_counts, DateStr(check_date)) > 0)
    /\ check_date # today
    /\ max_streak' = 0
    /\ temp_streak' = 0
    /\ i' = 0
    /\ pc' = "max_scan"
    /\ UNCHANGED <<otherThanStreak, today, commit_counts, current_streak, check_date>>

\* One iteration of "for i in range(366)" on a day with commits.
MaxCount ==
    /\ pc = "max_scan"
    /\ i < StreakScanDays
    /\ Get(commit_counts, DateStr((today - StreakWindowDays) + i)) > 0
    /\ temp_streak' = temp_streak + 1
    /\ max_streak' = Max(max_streak, temp_streak + 1)
    /\ i' = i + 1
    /\ UNCHANGED <<otherThanStreak, pc, today, commit_counts, current_streak, check_date>>

\* The iteration on a zero-count day with the running length kept.
MaxKeepRunning ==
    /\ pc = "max_scan"
    /\ i < StreakScanDays
    /\ ~(Get(commit_counts, DateStr((today - StreakWindowDays) + i)) > 0)
    /\ i' = i + 1
    /\ UNCHANGED <<otherThanStreak, pc, today, commit_counts, current_streak, check_date,
                   temp_streak, max_streak>>

\* One iteration on a zero-count day: the running length restarts.
MaxReset ==
    /\ pc = "max_scan"
    /\ i < StreakScanDays
    /\ ~(Get(commit_counts, DateStr((today - StreakWindowDays) + i)) > 0)
    /\ temp_streak' = 0
    /\ i' = i + 1
    /\ UNCHANGED <<otherThanStreak, pc, today, commit_counts, current_streak, check_date,
                   max_streak>>

\* The range is exhausted: return current_streak, max_streak.
StreakReturn ==
    /\ pc = "max_scan"
    /\ i = StreakScanDays
    /\ pc' = "streak_done"
    /\ UNCHANGED <<otherThanStreak, today, commit_counts, current_streak, check_date, i,
                   temp_streak, max_streak>>

----------------------------------------------------------------------------
(* get_color_level and generate_svg's walk over the grid                   *)

\* weeks = 53
GridWeeks == 53
\* days = 7
GridDays == 7
\* start_date = today - timedelta(days=364)
GridSpanDays == 364

\* The thresholds read as strict comparisons.
get_color_level_strict(count, max_count_) ==
    IF count = 0 THEN 0
    ELSE IF max_count_ = 0 THEN 0
    ELSE IF 4 * count < max_count_ THEN 1
    ELSE IF 2 * count < max_count_ THEN 2
    ELSE IF 4 * count < 3 * max_count_ THEN 3
    ELSE 4

\* get_color_level(count, max_count).  ratio = count / max_count is compared
\* with 0.25, 0.5 and 0.75, which floating point holds exactly; for the
\* non-negative integers of a commit count the comparisons are those of the
\* exact quotient, written here without division.
get_color_level(count, max_count_) ==
    IF count = 0 THEN 0
    ELSE IF max_count_ = 0 THEN 0
    ELSE IF 4 * count <= max_count_ THEN 1
    ELSE IF 2 * count <= max_count_ THEN 2
    ELSE IF 4 * count <= 3 * max_count_ THEN 3
    ELSE 4

\* The anchor with weekday() read as if Sunday were 0.
grid_start_date_sunday0(today_) ==
    LET start0 == today_ - GridSpanDays
        start_weekday == Weekday(start0)
    IN  IF start_weekday # 6 THEN start0 - start_weekday ELSE start0

\* generate_svg, lines 326-330: the grid's first date.
grid_start_date(today_) ==
    LET start0 == today_ - GridSpanDays
        start_weekday == Weekday(start0)
    IN  IF start_weekday # 6
        THEN start0 - ((start_weekday + 1) % 7)
        ELSE start0

\* max(commit_counts.values()) if commit_counts else 0
MaxValue(counts) ==
    IF DOMAIN counts = {}
    THEN 0
    ELSE CHOOSE v \in {counts[k] : k \in DOMAIN counts} :
             \A k \in DOMAIN counts : counts[k] <= v

\* generate_svg up to the grid loops: the anchor, max_count, current_date.
SvgBegin ==
    /\ pc = "generate_svg"
    /\ start_date' = grid_start_date(today)
    /\ max_count' = MaxValue(commit_counts)
    /\ current_date' = grid_start_date(today)
    /\ week' = 0
    /\ day' = 0
    /\ drawn' = <<>>
    /\ pc' = "grid_walk"
    /\ UNCHANGED <<inputVars, otherThanGrid>>

\* The loop indexes after one more cell of "for week ...: for day ...:".
NextWeek == IF day = GridDays - 1 THEN week + 1 ELSE week
NextDay == IF day = GridDays - 1 THEN 0 ELSE day + 1

\* A cell after today: "current_date += 1; continue", nothing is drawn.
CellSkip ==
    /\ pc = "grid_walk"
    /\ week < GridWeeks
    /\ current_date > today
    /\ current_date' = current_date + 1
    /\ week' = NextWeek
    /\ day' = NextDay
    /\ UNCHANGED <<pc, inputVars, otherThanGrid, start_date, max_count, drawn>>

\* A cell up to today: its count, its colour level, its rect, then the
\* next date.
CellDraw ==
    /\ pc = "grid_walk"
    /\ week < GridWeeks
    /\ ~(current_date > today)
    /\ LET count == Get(commit_counts, DateStr(current_date))
       IN  drawn' = Append(drawn,
                           [date |-> current_date, week |-> week, day |-> day,
                            count |-> count,
                            level |-> get_color_level(count, max_count)])
    /\ current_date' = current_date + 1
    /\ week' = NextWeek
    /\ day' = NextDay
    /\ UNCHANGED <<pc, inputVars, otherThanGrid, start_date, max_count>>

\* Both loops are exhausted: the legend, the footer, the return.
SvgReturn ==
    /\ pc = "grid_walk"
    /\ week = GridWeeks
    /\ pc' = "svg_done"
    /\ UNCHANGED <<inputVars, otherThanGrid, gridVars>>

\* The grid variables while generate_svg is not running.
GridIdle ==
    /\ start_date = 0
    /\ max_count = 0
    /\ week = 0
    /\ day = 0
    /\ current_date = 0
    /\ drawn = <<>>

\* The streak variables while calculate_streak is not running.
StreakIdle ==
    /\ current_streak = 0
    /\ check_date = 0
    /\ i = 0
    /\ temp_streak = 0
    /\ max_streak = 0

----------------------------------------------------------------------------
(* Strings, as tuples of characters                                        *)

UpperCase == <<"A", "B", "C", "D", "E", "F", "G", "H", "I", "J", "K", "L", "M",
               "N", "O", "P", "Q", "R", "S", "T", "U", "V", "W", "X", "Y", "Z">>
LowerCase == <<"a", "b", "c", "d", "e", "f", "g", "h", "i", "j", "k", "l", "m",
               "n", "o", "p", "q", "r", "s", "t", "u", "v", "w", "x", "y", "z">>

LowerChar(c) ==
    IF \E k \in 1 .. 26 : UpperCase[k] = c
    THEN LowerCase[CHOOSE k \in 1 .. 26 : UpperCase[k] = c]
    ELSE c

\* str.lower()
Lower(str) == [k \in 1 .. Len(str) |-> LowerChar(str[k])]

\* str.strip(), for the blank as the only white space
Strip(str) ==
    LET solid == {k \in 1 .. Len(str) : str[k] # " "}
    IN  IF solid = {}
        THEN <<>>
        ELSE SubSeq(str, CHOOSE k \in solid : \A j \in solid : k <= j,
                         CHOOSE k \in solid : \A j \in solid : j <= k)

\* str[:n]
Prefix(str, n) == SubSeq(str, 1, IF Len(str) < n THEN Len(str) ELSE n)

\* Line 25: [e.strip().lower() for e in <entries> if e.strip()], for the
\* entries that splitting the environment value at its commas gives.
author_emails(entries) ==
    LET kept == SelectSeq(entries, LAMBDA e : Strip(e) # <<>>)
    IN  [k \in 1 .. Len(kept) |-> Lower(Strip(kept[k]))]

\* "x in emails"
InList(x, list) == \E k \in 1 .. Len(list) : list[k] = x

----------------------------------------------------------------------------
(* The data the providers send                                             *)

\* The values of AUTHOR_EMAILS in the environment, split at the commas.
EnvEmailEntries ==
    { <<>>,
      << <<" ", "A", "@", "x">>, <<" ">> >> }

\* Author emails: one that differs from the allow-list's "a@x" by case only,
\* and one that is not on it.
Emails == { <<"A", "@", "x">>, <<"b", "@", "x">> }

\* Author dates: none (a missing or empty "date" reads as ""), and two ISO
\* timestamps of different days.
Dates ==
    { <<>>,
      <<"2", "0", "2", "4", "-", "0", "3", "-", "0", "1",
        "T", "1", "0", ":", "0", "0", ":", "0", "0", "Z">>,
      <<"2", "0", "2", "4", "-", "0", "3", "-", "0", "2",
        "T", "2", "3", ":", "5", "9", ":", "5", "9", "Z">> }

\* A commit as the Azure DevOps API lists it (the fields the code reads), which
\* is also the common format of all_commits.
AzureRecords == {[author |-> [email |-> e, date |-> d]] : e \in Emails, d \in Dates}

\* A commit as the GitHub API lists it (the fields the code reads).
GithubRecords ==
    {[commit |-> [author |-> [email |-> e, date |-> d]]] : e \in Emails, d \in Dates}

\* The pages of at most PageSize records that can still be sent.
PagesOf(records) ==
    UNION {[1 .. n -> records] :
              n \in 0 .. (IF MaxServed - served < PageSize
                          THEN MaxServed - served ELSE PageSize)}

\* The statuses other than 200, 404 and 409 stand as "500"; "transport" is
\* requests.get raising.
NoError == [level |-> "none", status |-> "none"]

----------------------------------------------------------------------------
(* fetch_azure_commits.  A function's local variables are set back when it *)
(* returns, and a loop's when it moves on.                                 *)

\* Line 119 without .lower(): the email is compared as it is.
azure_email_filter_exact(cs, emails) ==
    SelectSeq(cs, LAMBDA c : InList(c.author.email, emails))

\* Line 119: [c for c in commits if c.get("author", {}).get("email", "").lower() in emails]
azure_email_filter(cs, emails) ==
    SelectSeq(cs, LAMBDA c : InList(Lower(c.author.email), emails))

\* The request that was answered, and its answer.
Answer(level, status) == [level |-> level, status |-> status]

\* fetch_azure_commits returns all_commits: main goes on to fetch_github_commits.
AzureReturn ==
    /\ pc' = "fetch_github"
    /\ n_projects' = 0
    /\ p_idx' = 0
    /\ n_repos' = 0
    /\ r_idx' = 0

\* "except Exception as e: print(Error: e)", then "return all_commits".
AzureExcept(level, status) ==
    /\ error_log' = [error_log EXCEPT !.azure = [level |-> level, status |-> status]]
    /\ AzureReturn

\* The "for project in projects" loop goes to the project after p_idx, or ends.
AzureNextProject ==
    IF p_idx < n_projects
    THEN /\ p_idx' = p_idx + 1
         /\ n_repos' = 0
         /\ r_idx' = 0
         /\ pc' = "az_repositories"
         /\ UNCHANGED n_projects
    ELSE AzureReturn

\* The "for repo in repos" loop goes to the repository after r_idx, or ends.
AzureNextRepo ==
    IF r_idx < n_repos
    THEN /\ r_idx' = r_idx + 1
         /\ pc' = "az_commits"
         /\ UNCHANGED <<n_projects, p_idx, n_repos>>
    ELSE AzureNextProject

\* Lines 116-123 once get_azure_commits has returned cs: the filter, the
\* extend, and the next repository.
AzureGotCommits(cs) ==
    /\ received' = [received EXCEPT !.azure = @ \o cs]
    /\ LET kept == IF AUTHOR_EMAILS # <<>>
                   THEN azure_email_filter(cs, AUTHOR_EMAILS)
                   ELSE cs
       IN  azure_commits' = azure_commits \o kept
    /\ commits' = <<>>
    /\ skip' = 0
    /\ AzureNextRepo

\* fetch_azure_commits without credentials: "skipped", an empty list.
AzureSkipped ==
    /\ pc = "fetch_azure"
    /\ ~azure_configured
    /\ pc' = "fetch_github"
    /\ UNCHANGED <<inputVars, otherThanFetch, fetchVars, cursorVars>>

\* fetch_azure_commits with credentials: all_commits = [], into the "try".
AzureBegin ==
    /\ pc = "fetch_azure"
    /\ azure_configured
    /\ azure_commits' = <<>>
    /\ pc' = "az_projects"
    /\ UNCHANGED <<inputVars, otherThanFetch, configVars, walkVars, mainVars,
                   cursorVars, error_log, received, github_commits,
                   last_response, served>>

\* get_azure_projects answered 200 with n projects.
AzProjectsOk ==
    /\ pc = "az_projects"
    /\ \E n \in 0 .. MaxProjects :
          IF n = 0
          THEN AzureReturn
          ELSE /\ n_projects' = n
               /\ p_idx' = 1
               /\ pc' = "az_repositories"
               /\ UNCHANGED <<n_repos, r_idx>>
    /\ last_response' = Answer("az_projects", "200")
    /\ UNCHANGED <<inputVars, otherThanFetch, configVars, resultVars, mainVars,
                   cursorVars, commits, served>>

\* get_azure_projects answered with an error status, 404 included
\* (raise_for_status), or requests.get raised.
AzProjectsError ==
    /\ pc = "az_projects"
    /\ \E status \in {"404", "500", "transport"} :
          /\ AzureExcept("az_projects", status)
          /\ last_response' = Answer("az_projects", status)
    /\ UNCHANGED <<inputVars, otherThanFetch, configVars, mainVars, cursorVars,
                   commits, azure_commits, github_commits, received, served>>

\* The walk enters the n repositories of a project: get_azure_commits of the
\* first one starts with all_commits = [] and skip = 0.
AzureEnterRepos(n) ==
    IF n = 0
    THEN AzureNextProject
    ELSE /\ n_repos' = n
         /\ r_idx' = 1
         /\ pc' = "az_commits"
         /\ UNCHANGED <<n_projects, p_idx>>

\* get_azure_repositories answered 200 with n repositories.
AzRepositoriesOk ==
    /\ pc = "az_repositories"
    /\ \E n \in 0 .. MaxRepos : AzureEnterRepos(n)
    /\ last_response' = Answer("az_repositories", "200")
    /\ UNCHANGED <<inputVars, otherThanFetch, configVars, resultVars, mainVars,
                   cursorVars, commits, served>>

\* The 404 of get_azure_repositories raised like any other error status.
AzRepositories404Raises ==
    /\ pc = "az_repositories"
    /\ AzureExcept("az_repositories", "404")
    /\ last_response' = Answer("az_repositories", "404")
    /\ UNCHANGED <<inputVars, otherThanFetch, configVars, mainVars, cursorVars,
                   commits, azure_commits, github_commits, received, served>>

\* get_azure_repositories answered 404: "return []".
AzRepositories404 ==
    /\ pc = "az_repositories"
    /\ AzureEnterRepos(0)
    /\ last_response' = Answer("az_repositories", "404")
    /\ UNCHANGED <<inputVars, otherThanFetch, configVars, resultVars, mainVars,
                   cursorVars, commits, served>>

\* get_azure_repositories answered with another error status, or
\* requests.get raised.
AzRepositoriesError ==
    /\ pc = "az_repositories"
    /\ \E status \in {"500", "transport"} :
          /\ AzureExcept("az_repositories", status)
          /\ last_response' = Answer("az_repositories", status)
    /\ UNCHANGED <<inputVars, otherThanFetch, configVars, mainVars, cursorVars,
                   commits, azure_commits, github_commits, received, served>>

\* get_azure_commits: a page answered 200.  An empty page ends the loop; a
\* page is added and $skip moved, and a page shorter than the limit ends the
\* loop; a full page asks for the next.
AzCommitsOk ==
    /\ pc = "az_commits"
    /\ \E cs \in PagesOf(AzureRecords) :
          /\ served' = served + Len(cs)
          /\ IF cs = <<>>
             THEN AzureGotCommits(commits)
             ELSE IF Len(cs) < PageSize
                  THEN AzureGotCommits(commits \o cs)
                  ELSE /\ commits' = commits \o cs
                       /\ skip' = skip + Len(cs)
                       /\ UNCHANGED <<pc, n_projects, p_idx, n_repos, r_idx,
                                      azure_commits, received>>
    /\ last_response' = Answer("az_commits", "200")
    /\ UNCHANGED <<inputVars, otherThanFetch, configVars, mainVars, page,
                   github_commits, error_log>>

\* get_azure_commits: a page answered 404: "break", the pages read so far
\* are returned.
AzCommits404 ==
    /\ pc = "az_commits"
    /\ AzureGotCommits(commits)
    /\ last_response' = Answer("az_commits", "404")
    /\ UNCHANGED <<inputVars, otherThanFetch, configVars, mainVars, page,
                   github_commits, error_log, served>>

\* get_azure_commits: a page answered with another error status, or
\* requests.get raised: the exception leaves get_azure_commits, the pages it
\* had read go with it.
AzCommitsError ==
    /\ pc = "az_commits"
    /\ \E status \in {"500", "transport"} :
          /\ AzureExcept("az_commits", status)
          /\ last_response' = Answer("az_commits", status)
    /\ commits' = <<>>
    /\ skip' = 0
    /\ UNCHANGED <<inputVars, otherThanFetch, configVars, mainVars, page,
                   azure_commits, github_commits, received, served>>

----------------------------------------------------------------------------
(* fetch_github_commits                                                    *)

\* Line 226: [c for c in commits if c.get("commit", {}).get("author", {}).get("email", "").lower() in emails]
github_email_filter(cs, emails) ==
    SelectSeq(cs, LAMBDA c : InList(Lower(c.commit.author.email), emails))

\* Lines 232-237: a GitHub commit in the common format.
github_common_format(c) ==
    [author |-> [email |-> c.commit.author.email, date |-> c.commit.author.date]]

\* fetch_github_commits returns all_commits: main goes on to aggregate.
GithubReturn ==
    /\ pc' = "aggregate"
    /\ n_repos' = 0
    /\ r_idx' = 0
    /\ page' = 1

\* "except Exception as e: print(Error: e)", then "return all_commits".
GithubExcept(level, status) ==
    /\ error_log' = [error_log EXCEPT !.github = [level |-> level, status |-> status]]
    /\ GithubReturn

\* The "for repo in repos" loop goes to the repository after r_idx, where
\* get_github_commits starts with commits = [] and page = 1, or ends.
GithubNextRepo ==
    IF r_idx < n_repos
    THEN /\ r_idx' = r_idx + 1
         /\ page' = 1
         /\ pc' = "gh_commits"
         /\ UNCHANGED n_repos
    ELSE GithubReturn

\* Lines 224-237 once get_github_commits has returned cs: the filter, the
\* conversion, the appends, and the next repository.
GithubGotCommits(cs) ==
    /\ received' = [received EXCEPT !.github = @ \o cs]
    /\ LET kept == IF AUTHOR_EMAILS # <<>> /\ cs # <<>>
                   THEN github_email_filter(cs, AUTHOR_EMAILS)
                   ELSE cs
       IN  github_commits' =
               github_commits \o [k \in 1 .. Len(kept) |-> github_common_format(kept[k])]
    /\ commits' = <<>>
    /\ GithubNextRepo

\* fetch_github_commits without a token: "skipped", an empty list.
GithubSkipped ==
    /\ pc = "fetch_github"
    /\ ~github_configured
    /\ pc' = "aggregate"
    /\ UNCHANGED <<inputVars, otherThanFetch, fetchVars, cursorVars>>

\* fetch_github_commits with a token: all_commits = [], into the "try", where
\* get_github_repos starts with repos = [] and page = 1.
GithubBegin ==
    /\ pc = "fetch_github"
    /\ github_configured
    /\ github_commits' = <<>>
    /\ n_repos' = 0
    /\ r_idx' = 0
    /\ page' = 1
    /\ pc' = "gh_repos"
    /\ UNCHANGED <<inputVars, otherThanFetch, configVars, mainVars, skip,
                   n_projects, p_idx, commits, error_log, received,
                   azure_commits, last_response, served>>

\* get_github_repos has returned n repositories: the walk enters them.
GithubEnterRepos(n) ==
    IF n = 0
    THEN GithubReturn
    ELSE /\ n_repos' = n
         /\ r_idx' = 1
         /\ page' = 1
         /\ pc' = "gh_commits"

\* get_github_repos: a page answered 200.  An empty page ends the loop; a
\* page is added and the page number moved, and a page shorter than the limit
\* ends the loop; a full page asks for the next.
GhReposOk ==
    /\ pc = "gh_repos"
    /\ \E n \in 0 .. (IF MaxRepos - n_repos < PageSize
                      THEN MaxRepos - n_repos ELSE PageSize) :
          IF n = 0
          THEN GithubEnterRepos(n_repos)
          ELSE IF n < PageSize
               THEN GithubEnterRepos(n_repos + n)
               ELSE /\ n_repos' = n_repos + n
                    /\ page' = page + 1
                    /\ UNCHANGED <<pc, r_idx>>
    /\ last_response' = Answer("gh_repos", "200")
    /\ UNCHANGED <<inputVars, otherThanFetch, configVars, resultVars, mainVars,
                   skip, n_projects, p_idx, commits, served>>

\* get_github_repos: a page answered with an error status, 404 included
\* (raise_for_status), or requests.get raised; the repositories of the pages
\* before it go with the exception.
GhReposError ==
    /\ pc = "gh_repos"
    /\ \E status \in {"404", "500", "transport"} :
          /\ GithubExcept("gh_repos", status)
          /\ last_response' = Answer("gh_repos", status)
    /\ UNCHANGED <<inputVars, otherThanFetch, configVars, mainVars, skip,
                   n_projects, p_idx, commits, azure_commits, github_commits,
                   received, served>>

\* get_github_commits: a page answered 200 (see GhReposOk).
GhCommitsOk ==
    /\ pc = "gh_commits"
    /\ \E cs \in PagesOf(GithubRecords) :
          /\ served' = served + Len(cs)
          /\ IF cs = <<>>
             THEN GithubGotCommits(commits)
             ELSE IF Len(cs) < PageSize
                  THEN GithubGotCommits(commits \o cs)
                  ELSE /\ commits' = commits \o cs
                       /\ page' = page + 1
                       /\ UNCHANGED <<pc, n_repos, r_idx, github_commits,
                                      received>>
    /\ last_response' = Answer("gh_commits", "200")
    /\ UNCHANGED <<inputVars, otherThanFetch, configVars, mainVars, skip,
                   n_projects, p_idx, azure_commits, error_log>>

\* get_github_commits: a page answered 409 (an empty repository) or 404:
\* "break", the pages read so far are returned.
GhCommitsBreak ==
    /\ pc = "gh_commits"
    /\ \E status \in {"409", "404"} :
          last_response' = Answer("gh_commits", status)
    /\ GithubGotCommits(commits)
    /\ UNCHANGED <<inputVars, otherThanFetch, configVars, mainVars, skip,
                   n_projects, p_idx, azure_commits, error_log, served>>

\* get_github_commits: a page answered with another error status, or
\* requests.get raised.
GhCommitsError ==
    /\ pc = "gh_commits"
    /\ \E status \in {"500", "transport"} :
          /\ GithubExcept("gh_commits", status)
          /\ last_response' = Answer("gh_commits", status)
    /\ commits' = <<>>
    /\ UNCHANGED <<inputVars, otherThanFetch, configVars, mainVars, skip,
                   n_projects, p_idx, azure_commits, github_commits, received,
                   served>>

----------------------------------------------------------------------------
(* The pagination loops followed alone: get_azure_commits (lines 75-90),   *)
(* get_github_repos (146-159) and get_github_commits (169-195) against a   *)
(* source that may answer every request with a full page.  The loops read  *)
(* $skip, page and the gathered list only to send and to extend them, never *)
(* to decide whether to go on, so their values past MaxTracked are not     *)
(* told apart.                                                             *)

PaginationLoops == {"get_azure_commits", "get_github_repos", "get_github_commits"}

Tracked(n) == IF n > MaxTracked THEN MaxTracked ELSE n

\* The loop has read a page of n > 0 items: the extend, and $skip or page moved.
PageTaken(n) ==
    /\ n_items' = Tracked(n_items + n)
    /\ IF loop = "get_azure_commits"
       THEN skip' = Tracked(skip + n) /\ page' = page
       ELSE page' = Tracked(page + 1) /\ skip' = skip

\* The top of "while True": requests.get is called with the current $skip or page.
PageRequest ==
    /\ pc = "page_request"
    /\ pc' = "page_wait"
    /\ UNCHANGED <<inputVars, streakVars, gridVars, fetchVars, cursorVars, pageVars>>

\* The answer is 200 with as many items as the page-size limit: they are
\* added, and neither "if not ..." nor "if len(...) < limit" breaks.
PageFull ==
    /\ pc = "page_wait"
    /\ PageTaken(PageSize)
    /\ pc' = "page_request"
    /\ UNCHANGED <<inputVars, streakVars, gridVars, fetchVars, loop>>

\* The answer is 200 with fewer items than the limit, and at least one: they
\* are added and "if len(...) < limit: break" ends the loop.
PageShort ==
    /\ pc = "page_wait"
    /\ \E n \in 1 .. (PageSize - 1) : PageTaken(n)
    /\ pc' = "loop_returned"
    /\ UNCHANGED <<inputVars, streakVars, gridVars, fetchVars, loop>>

\* The answer is 200 with no item: "if not ...: break".
PageEmpty ==
    /\ pc = "page_wait"
    /\ pc' = "loop_returned"
    /\ UNCHANGED <<inputVars, streakVars, gridVars, fetchVars, cursorVars, pageVars>>

\* The answer is 404: "break" in the two commit listings, raise_for_status
\* raising in get_github_repos.
PageNotFound ==
    /\ pc = "page_wait"
    /\ pc' = IF loop = "get_github_repos" THEN "loop_raised" ELSE "loop_returned"
    /\ UNCHANGED <<inputVars, streakVars, gridVars, fetchVars, cursorVars, pageVars>>

\* The answer is 409: "break" in get_github_commits, raise_for_status raising
\* in the other two.
PageConflict ==
    /\ pc = "page_wait"
    /\ pc' = IF loop = "get_github_commits" THEN "loop_returned" ELSE "loop_raised"
    /\ UNCHANGED <<inputVars, streakVars, gridVars, fetchVars, cursorVars, pageVars>>

\* The answer is another error status, or requests.get raises.
PageError ==
    /\ pc = "page_wait"
    /\ pc' = "loop_raised"
    /\ UNCHANGED <<inputVars, streakVars, gridVars, fetchVars, cursorVars, pageVars>>

----------------------------------------------------------------------------
(* aggregate_by_date and main                                              *)

\* counts[date_str] += 1 on a defaultdict(int)
Increment(counts, date_str) ==
    IF date_str \in DOMAIN counts
    THEN [counts EXCEPT ![date_str] = @ + 1]
    ELSE counts @@ (date_str :> 1)

\* The loop of aggregate_by_date from the k-th commit on.
RECURSIVE aggregate_from(_, _, _)
aggregate_from(cs, k, counts) ==
    IF k > Len(cs)
    THEN counts
    ELSE LET date_str == Prefix(cs[k].author.date, 10)
         IN  aggregate_from(cs, k + 1,
                            IF date_str # <<>>
                            THEN Increment(counts, date_str)
                            ELSE counts)

\* aggregate_by_date(commits)
aggregate_by_date(cs) == aggregate_from(cs, 1, <<>>)

\* main, lines 428-434: the two lists are joined and aggregated.
MainAggregate ==
    /\ pc = "aggregate"
    /\ all_commits' = azure_commits \o github_commits
    /\ commit_counts' = aggregate_by_date(azure_commits \o github_commits)
    /\ pc' = "report"
    /\ UNCHANGED <<otherThanFetch, configVars, walkVars, resultVars,
                   cursorVars, last_response, served, svg_total, stats>>

\* main, lines 442-450: generate_svg and update_stats_file are called with
\* len(all_commits), len(azure_commits), len(github_commits).
MainReport ==
    /\ pc = "report"
    /\ svg_total' = Len(all_commits)
    /\ stats' = [total |-> Len(all_commits), azure |-> Len(azure_commits),
                 github |-> Len(github_commits)]
    /\ pc' = "main_done"
    /\ UNCHANGED <<inputVars, otherThanFetch, configVars, walkVars, resultVars,
                   cursorVars, last_response, served, all_commits>>

\* The fetch variables while main is not running.
FetchIdle ==
    /\ AUTHOR_EMAILS = <<>>
    /\ azure_configured = FALSE
    /\ github_configured = FALSE
    /\ azure_commits = <<>>
    /\ github_commits = <<>>
    /\ n_projects = 0
    /\ p_idx = 0
    /\ n_repos = 0
    /\ r_idx = 0
    /\ commits = <<>>
    /\ error_log = [azure |-> NoError, github |-> NoError]
    /\ last_response = Answer("none", "none")
    /\ received = [azure |-> <<>>, github |-> <<>>]
    /\ served = 0
    /\ all_commits = <<>>
    /\ svg_total = 0
    /\ stats = [total |-> 0, azure |-> 0, github |-> 0]

\* The pagination variables while no pagination loop is followed alone.
PagingIdle ==
    /\ skip = 0
    /\ page = 1
    /\ loop = "none"
    /\ n_items = 0

----------------------------------------------------------------------------
(* The streak specification: calculate_streak on DailyCounts mappings      *)
(* whose active days are two runs of consecutive days.                     *)

NearOffsets == 0 .. NearEdge
FarOffsets == (StreakWindowDays - FarEdge) .. (StreakWindowDays + FarEdge)

\* The mapping with count 1 on the days today-hiA .. today-loA and count 2 on
\* the days today-hiB .. today-loB (an empty run when lo > hi).
CountsOnRuns(today_, loA, hiA, loB, hiB) ==
    LET key == [o \in (loA .. hiA) \cup (loB .. hiB) |-> DateStr(today_ - o)]
    IN  [k \in {key[o] : o \in DOMAIN key} |->
            IF \E o \in loB .. hiB : key[o] = k THEN 2 ELSE 1]

StreakInit ==
    /\ pc = "calculate_streak"
    /\ today \in {TodayBase, TodayBase + MaxTodayShift}
    /\ \E loA \in NearOffsets \cup FarOffsets, hiA \in NearOffsets \cup FarOffsets,
          loB \in NearOffsets, hiB \in NearOffsets :
          /\ loA <= hiA
          /\ loB <= hiB + 1
          /\ commit_counts = CountsOnRuns(today, loA, hiA, loB, hiB)
    /\ StreakIdle
    /\ GridIdle
    /\ FetchIdle
    /\ PagingIdle

StreakNext ==
    \/ StreakBegin
    \/ CurrentCount
    \/ CurrentSkipToday
    \/ CurrentBreak
    \/ MaxCount
    \/ MaxReset
    \/ StreakReturn

SpecStreak == StreakInit /\ [][StreakNext]_vars

----------------------------------------------------------------------------
(* The grid specification: generate_svg on every weekday of today, for     *)
(* mappings with counts on today, on yesterday and on a day before the     *)
(* grid.                                                                   *)

\* The mapping with the given counts on today, today-1 and today-400, a day
\* with count 0 having no key.
CountsOnDays(today_, c0, c1, cOld) ==
    LET cnt == (DateStr(today_) :> c0) @@ (DateStr(today_ - 1) :> c1)
                   @@ (DateStr(today_ - 400) :> cOld)
    IN  [k \in {d \in DOMAIN cnt : cnt[d] > 0} |-> cnt[k]]

GridInit ==
    /\ pc = "generate_svg"
    /\ today \in Todays
    /\ \E c0 \in 0 .. MaxDayCount, c1 \in 0 .. MaxDayCount, cOld \in 0 .. MaxDayCount :
          commit_counts = CountsOnDays(today, c0, c1, cOld)
    /\ StreakIdle
    /\ GridIdle
    /\ FetchIdle
    /\ PagingIdle

GridNext ==
    \/ SvgBegin
    \/ CellSkip
    \/ CellDraw
    \/ SvgReturn

SpecGrid == GridInit /\ [][GridNext]_vars

----------------------------------------------------------------------------
(* The fetch specification: main from its start to update_stats_file, the  *)
(* providers answering each request with any status and any page.          *)

FetchInit ==
    /\ pc = "fetch_azure"
    /\ today = TodayBase
    /\ commit_counts = <<>>
    /\ \E entries \in EnvEmailEntries : AUTHOR_EMAILS = author_emails(entries)
    /\ azure_configured \in BOOLEAN
    /\ github_configured \in BOOLEAN
    /\ azure_commits = <<>>
    /\ github_commits = <<>>
    /\ n_projects = 0
    /\ p_idx = 0
    /\ n_repos = 0
    /\ r_idx = 0
    /\ commits = <<>>
    /\ error_log = [azure |-> NoError, github |-> NoError]
    /\ last_response = Answer("none", "none")
    /\ received = [azure |-> <<>>, github |-> <<>>]
    /\ served = 0
    /\ all_commits = <<>>
    /\ svg_total = 0
    /\ stats = [total |-> 0, azure |-> 0, github |-> 0]
    /\ StreakIdle
    /\ GridIdle
    /\ PagingIdle

FetchNext ==
    \/ AzureSkipped
    \/ AzureBegin
    \/ AzProjectsOk
    \/ AzProjectsError
    \/ AzRepositoriesOk
    \/ AzRepositories404
    \/ AzRepositoriesError
    \/ AzCommitsOk
    \/ AzCommits404
    \/ AzCommitsError
    \/ GithubSkipped
    \/ GithubBegin
    \/ GhReposOk
    \/ GhReposError
    \/ GhCommitsOk
    \/ GhCommitsBreak
    \/ GhCommitsError
    \/ MainAggregate
    \/ MainReport

SpecFetch == FetchInit /\ [][FetchNext]_vars

----------------------------------------------------------------------------
(* The pagination specification: one loop, every answer possible at every  *)
(* request.  The program is sequential and every request is answered, so   *)
(* the loop always takes its next step.                                    *)

PagingInit ==
    /\ pc = "page_request"
    /\ loop \in PaginationLoops
    /\ skip = 0
    /\ page = 1
    /\ n_items = 0
    /\ today = TodayBase
    /\ commit_counts = <<>>
    /\ StreakIdle
    /\ GridIdle
    /\ FetchIdle

PagingNext ==
    \/ PageRequest
    \/ PageFull
    \/ PageShort
    \/ PageEmpty
    \/ PageNotFound
    \/ PageConflict
    \/ PageError

SpecPaging == PagingInit /\ [][PagingNext]_vars /\ WF_vars(PagingNext)

----------------------------------------------------------------------------
(* Claims about calculate_streak (checked under SpecStreak).               *)

\* Whether the day with this ordinal has commits in commit_counts.
Active(date) == Get(commit_counts, DateStr(date)) > 0

\* The day the current streak ends at: today, or yesterday when today has no
\* commits.
StreakEnd == IF Active(today) THEN today ELSE today - 1

\* C6: the current streak returned is the length of the maximal run of
\* consecutive days with count > 0 that ends at today (at today-1 when today's
\* count is zero): every day of the run has commits and the day before the
\* run has none; and the backward walk is bounded, it never goes further back
\* than one day past the days it counted, which are keys of the mapping.
C6_CurrentStreakIsRunEndingToday ==
    /\ pc = "streak_done" =>
          /\ \A k \in 0 .. (current_streak - 1) : Active(StreakEnd - k)
          /\ ~Active(StreakEnd - current_streak)
    /\ pc = "current_walk" =>
          /\ today - check_date <= current_streak + 1
          /\ current_streak <= Cardinality(DOMAIN commit_counts)

\* C6 witness: today has no commits, the two days before have, the third has
\* none, and the walk returned 2.
C6_Witness ==
    /\ pc = "streak_done"
    /\ ~Active(today)
    /\ Active(today - 1)
    /\ Active(today - 2)
    /\ ~Active(today - 3)
    /\ current_streak = 2

\* The indexes (0 = today-365 .. 365 = today) of the window's days with commits.
ActiveInWindow ==
    {j \in 0 .. (StreakScanDays - 1) : Active((today - StreakWindowDays) + j)}

\* Whether the window holds a run of n consecutive days with commits.
WindowHasRun(act, n) ==
    \E a \in 0 .. (StreakScanDays - n) : \A j \in a .. (a + n - 1) : j \in act

\* C7: the max streak returned is the length of the longest run of consecutive
\* days with count > 0 lying wholly inside [today-365, today]: the window holds
\* a run of that length and none longer.
C7_MaxStreakIsLongestRunInWindow ==
    pc = "streak_done" =>
        LET act == ActiveInWindow
        IN  /\ max_streak \in 0 .. StreakScanDays
            /\ WindowHasRun(act, max_streak)
            /\ max_streak < StreakScanDays => ~WindowHasRun(act, max_streak + 1)

\* C7 witness: a run of three days that starts the day before the window
\* (today-366), followed by a gap and a single active day: the returned
\* maximum is the two days of the run inside the window.
C7_Witness ==
    /\ pc = "streak_done"
    /\ Active(today - (StreakWindowDays + 1))
    /\ Active(today - StreakWindowDays)
    /\ Active(today - (StreakWindowDays - 1))
    /\ ~Active(today - (StreakWindowDays - 2))
    /\ Active(today)
    /\ ~Active(today - 1)
    /\ max_streak = 2

\* C10: the current streak returned never exceeds the max streak returned by
\* the same call.
C10_CurrentNeverExceedsMax ==
    pc = "streak_done" => current_streak <= max_streak

----------------------------------------------------------------------------
(* Claims about generate_svg and get_color_level (checked under SpecGrid). *)

\* The row of a date in a grid whose row 0 is Sunday.
SundayRow(date) == (Weekday(date) + 1) % 7

\* C8: the walk visits 53*7 = 371 cells holding the consecutive dates
\* start_date + (week*7 + day); start_date is a Sunday at most 6 days before
\* today-364; a drawn cell's row is its weekday (row 0 = Sunday) and its date
\* is not after today; when the walk ends, the drawn cells are the dates from
\* start_date through today, each once and in order, the first a Sunday.
C8_GridWalk ==
    /\ pc \in {"grid_walk", "svg_done"} =>
          /\ current_date = start_date + (week * GridDays + day)
          /\ week * GridDays + day <= GridWeeks * GridDays
          /\ Weekday(start_date) = 6
          /\ (today - GridSpanDays) - start_date \in 0 .. 6
          /\ Len(drawn) > 0 =>
                LET cell == drawn[Len(drawn)]
                IN  /\ cell.date = start_date + (cell.week * GridDays + cell.day)
                    /\ cell.day = SundayRow(cell.date)
                    /\ cell.date <= today
    /\ pc = "svg_done" =>
          /\ week * GridDays + day = 371
          /\ Len(drawn) = (today - start_date) + 1
          /\ \A k \in 1 .. Len(drawn) : drawn[k].date = start_date + (k - 1)
          /\ Weekday(drawn[1].date) = 6

\* C8 witness: the walk has ended for a today that is not a Saturday, so the
\* anchor was moved back, the last column holds cells after today that were
\* not drawn, and the last drawn cell is today.
C8_Witness ==
    /\ pc = "svg_done"
    /\ start_date < today - GridSpanDays
    /\ Len(drawn) < GridWeeks * GridDays
    /\ drawn[Len(drawn)].date = today
    /\ drawn[Len(drawn)].week = GridWeeks - 1

\* The colour level as the claim words it: 0 for no commits or no maximum,
\* else the first of the quarters 1..4 that count/max_count does not exceed.
QuarterOf(count, max_count_) ==
    IF count = 0 \/ max_count_ = 0
    THEN 0
    ELSE IF \E q \in 1 .. 3 : 4 * count <= q * max_count_
         THEN CHOOSE q \in 1 .. 3 :
                  /\ 4 * count <= q * max_count_
                  /\ \A r \in 1 .. (q - 1) : 4 * count > r * max_count_
         ELSE 4

\* C9: get_color_level is 0 when count or max_count is 0, else 1..4 by the
\* quarter of count/max_count; it is within 0..4 and non-decreasing in count;
\* and a drawn cell, whose max_count is the maximum of the mapping's values,
\* has level 0 exactly when its count is 0.
C9_ColorLevel ==
    /\ pc = "generate_svg" =>
        \A m \in 0 .. MaxDayCount : \A c \in 0 .. (2 * MaxDayCount) :
          /\ get_color_level(c, m) = QuarterOf(c, m)
          /\ get_color_level(c, m) \in 0 .. 4
          /\ \A c2 \in c .. (2 * MaxDayCount) :
                get_color_level(c, m) <= get_color_level(c2, m)
    /\ pc \in {"grid_walk", "svg_done"} =>
          /\ \A k \in DOMAIN commit_counts : commit_counts[k] <= max_count
          /\ DOMAIN commit_counts # {} =>
                \E k \in DOMAIN commit_counts : commit_counts[k] = max_count
          /\ Len(drawn) > 0 =>
                LET cell == drawn[Len(drawn)]
                IN  /\ cell.count = Get(commit_counts, DateStr(cell.date))
                    /\ cell.level \in 0 .. 4
                    /\ cell.level = 0 <=> cell.count = 0
                    /\ cell.level = QuarterOf(cell.count, max_count)

\* C9 witness: the walk has drawn today with a count of exactly a quarter of
\* the maximum (level 1), after yesterday with the maximum itself (level 4)
\* and a day without commits (level 0).
C9_Witness ==
    /\ pc = "svg_done"
    /\ max_count = 4
    /\ LET n == Len(drawn)
       IN  /\ drawn[n].count = 1
           /\ drawn[n].level = 1
           /\ drawn[n - 1].count = 4
           /\ drawn[n - 1].level = 4
           /\ drawn[n - 2].count = 0
           /\ drawn[n - 2].level = 0

----------------------------------------------------------------------------
(* Claims about the fetchers, aggregate_by_date and main (checked under    *)
(* SpecFetch).                                                             *)

Providers == {"azure", "github"}

\* Whether a provider's fetch was aborted by a transport error or by a status
\* other than 2xx and 404.
Failed(provider) == error_log[provider].status \in {"500", "transport"}

\* C1: a provider one of whose requests failed with a transport error or a
\* status other than 2xx/404 contributes zero records to the run, whatever it
\* had gathered before; and the other provider, when it has credentials, is
\* still fetched and its records are counted.
C1_FailedProviderContributesNothing ==
    pc = "main_done" =>
        /\ Failed("azure") => stats.azure = 0
        /\ Failed("github") => stats.github = 0
        /\ (Failed("azure") /\ github_configured) =>
              /\ last_response.level \in {"gh_repos", "gh_commits"}
              /\ stats.total = stats.azure + Len(github_commits)

RECURSIVE SumOver(_, _)
\* The sum of a mapping's values over a set of its keys.
SumOver(counts, keys) ==
    IF keys = {}
    THEN 0
    ELSE LET k == CHOOSE x \in keys : TRUE
         IN  counts[k] + SumOver(counts, keys \ {k})

\* C2: the values of the DailyCounts mapping sum to the total commit count
\* that main passes to the renderer's footer and to the statistics file.
C2_CountsSumToReportedTotal ==
    pc = "main_done" =>
        /\ SumOver(commit_counts, DOMAIN commit_counts) = svg_total
        /\ SumOver(commit_counts, DOMAIN commit_counts) = stats.total

AfterAzureRepo ==
    IF r_idx < n_repos
    THEN pc' = "az_commits" /\ r_idx' = r_idx + 1 /\ p_idx' = p_idx
    ELSE IF p_idx < n_projects
         THEN pc' = "az_repositories" /\ p_idx' = p_idx + 1
         ELSE pc' = "fetch_github"

\* What a step answered by a 404 does, level by level.
NotFoundEffect ==
    LET level == last_response'.level
    IN  /\ level = "az_repositories" =>
              /\ error_log' = error_log
              /\ azure_commits' = azure_commits
              /\ received' = received
              /\ IF p_idx < n_projects
                 THEN pc' = "az_repositories" /\ p_idx' = p_idx + 1
                 ELSE pc' = "fetch_github"
        /\ level = "az_commits" =>
              /\ error_log' = error_log
              /\ received' = [received EXCEPT !.azure = @ \o commits]
              /\ Len(azure_commits') >= Len(azure_commits)
              /\ AfterAzureRepo
        /\ level = "gh_commits" =>
              /\ error_log' = error_log
              /\ received' = [received EXCEPT !.github = @ \o commits]
              /\ Len(github_commits') >= Len(github_commits)
              /\ IF r_idx < n_repos
                 THEN pc' = "gh_commits" /\ r_idx' = r_idx + 1
                 ELSE pc' = "aggregate"
        /\ level = "az_projects" =>
              /\ error_log'.azure = [level |-> "az_projects", status |-> "404"]
              /\ azure_commits' = <<>>
              /\ pc' = "fetch_github"
        /\ level = "gh_repos" =>
              /\ error_log'.github = [level |-> "gh_repos", status |-> "404"]
              /\ github_commits' = <<>>
              /\ pc' = "aggregate"
        /\ level \in {"az_repositories", "az_commits", "gh_commits",
                      "az_projects", "gh_repos"}

OnAllowList(email) ==
    \E k \in 1 .. Len(AUTHOR_EMAILS) : Lower(AUTHOR_EMAILS[k]) = Lower(email)

\* The records of a list that the claimed filter keeps.
Allowed(records) ==
    IF AUTHOR_EMAILS = <<>>
    THEN records
    ELSE SelectSeq(records, LAMBDA r : OnAllowList(r.author.email))

\* C5: with a non-empty allow-list, the records a fetcher returns are exactly
\* those, of the records its commit listings returned, whose lowercased author
\* email is on the allow-list, for both providers; with an empty allow-list
\* none is discarded.
C5_EmailFilterIsCaseInsensitive ==
    /\ azure_commits = Allowed(received.azure)
    /\ github_commits =
           Allowed([k \in 1 .. Len(received.github) |->
                       [author |-> received.github[k].commit.author]])
    /\ AUTHOR_EMAILS # <<>> =>
          /\ \A k \in 1 .. Len(azure_commits) :
                InList(Lower(azure_commits[k].author.email), AUTHOR_EMAILS)
          /\ \A k \in 1 .. Len(github_commits) :
                InList(Lower(github_commits[k].author.email), AUTHOR_EMAILS)

\* C5 witness: the allow-list is ["a@x"]; Azure returned "A@x" and "b@x" and
\* the fetcher kept the first only; GitHub returned "A@x" and it was kept.
C5_Witness ==
    /\ pc = "main_done"
    /\ AUTHOR_EMAILS = << <<"a", "@", "x">> >>
    /\ Len(received.azure) = 2
    /\ received.azure[1].author.email = <<"A", "@", "x">>
    /\ received.azure[2].author.email = <<"b", "@", "x">>
    /\ azure_commits = <<received.azure[1]>>
    /\ Len(received.github) = 1
    /\ Len(github_commits) = 1
    /\ github_commits[1].author.email = <<"A", "@", "x">>

----------------------------------------------------------------------------
(* The claim about the pagination loops (checked under SpecPaging).        *)

\* C3: every pagination loop terminates, by returning or by raising, even
\* against a source that answers every request with a full page.
C3_PaginationTerminates ==
    <>(pc \in {"loop_returned", "loop_raised"})

====
